---- MODULE Spec2Model ----
(***************************************************************************)
(* A model of the multi-asset token ledger pallet of src/src/lib.rs:       *)
(* the five storage items (TotalSupply, AssetInfos, Balances, NextAssetId, *)
(* Allowances), the events deposited by a call, and the operations         *)
(* inner_issue, inner_transfer, inner_transfer_from, inner_approve,        *)
(* inner_mint and inner_burn, each translated statement by statement.      *)
(*                                                                         *)
(* An operation is an operator from a store (a record of the storage       *)
(* items) to an outcome [st, res, ret]: the store as the code leaves it at *)
(* the point where it returns, the DispatchResult, and the returned value. *)
(* A failing operation returns the store as it stands at the failing       *)
(* statement: the pallet has no rollback of its own.                       *)
(***************************************************************************)
EXTENDS Integers, Sequences, FiniteSets, TLC

\* The largest value of T::TokenBalance (an unsigned integer type), scaled down.
MAX == 2

\* Number of calls in a run of Spec (all six operations).
MaxCalls == 3

\* Number of calls in a run of SupplySpec (issue, transfer, mint and burn).
SupplyCalls == 4

\* T::AccountId values used as origins, owners, spenders and targets.
Accounts == {"A", "B"}

\* The values of T::AssetId, a bounded integer type, scaled down to two: 0 is
\* its default and 1 its largest value.
AssetIds == {0, 1}

\* T::TokenBalance values used as call arguments.
Amounts == {0, 1, MAX}

\* AssetInfo { name, symbol, decimals } values used as call arguments.
AssetInfo == {[name |-> "n", symbol |-> "s", decimals |-> d] : d \in {0, 18}}

\* Option<T>.
None == <<>>
Some(x) == <<x>>
is_some(o) == o # None

\* DispatchResult: Ok(()), one of the variants of decl_error!, or the
\* BadOrigin of ensure_signed, CannotLookup of a failed Lookup::lookup, and the
\* panic of an arithmetic overflow in a build with overflow checks.
Ok == "Ok"
BadOrigin == "BadOrigin"
CannotLookup == "CannotLookup"
Panic == "Panic"
BalanceLow == "BalanceLow"
BalanceZero == "BalanceZero"
AllowanceLow == "AllowanceLow"
AmountZero == "AmountZero"
AssetNotExists == "AssetNotExists"
Error == {BalanceLow, BalanceZero, AllowanceLow, AmountZero, AssetNotExists}

\* The variants of decl_event!.
Issued(id, account, amount) == <<"Issued", id, account, amount>>
Transferred(id, from, to, amount) == <<"Transferred", id, from, to, amount>>
Approval(id, owner, spender, amount) == <<"Approval", id, owner, spender, amount>>
Minted(id, account, amount) == <<"Minted", id, account, amount>>
Burned(id, account, amount) == <<"Burned", id, account, amount>>

VARIABLES
    TotalSupply,   \* map AssetId => TokenBalance (absent reads as 0)
    AssetInfos,    \* map AssetId => Option<AssetInfo>
    Balances,      \* map (AssetId, AccountId) => TokenBalance
    NextAssetId,   \* AssetId
    Allowances,    \* map (AssetId, AccountId, AccountId) => TokenBalance
    Events,        \* the events deposited by the latest call
    last,          \* the latest call: operation, arguments, result, returned id
    pre,           \* the store the latest call started from
    issued,        \* the ids returned by the issue calls so far, in order
    calls,         \* the number of calls so far
    grants,        \* per (id, owner, spender): the amount of the latest approve
                   \* and what transfer_from has moved under it since
    frame          \* the call in progress when calls run statement by statement

vars == <<TotalSupply, AssetInfos, Balances, NextAssetId, Allowances, Events,
          last, pre, issued, calls, grants, frame>>

\* The storage as one value.
Store ==
    [TotalSupply |-> TotalSupply, AssetInfos |-> AssetInfos, Balances |-> Balances,
     NextAssetId |-> NextAssetId, Allowances |-> Allowances, Events |-> Events]

\* The storage of a fresh chain: every map empty, every value its default.
EmptyStore ==
    [TotalSupply |-> [a \in AssetIds |-> 0],
     AssetInfos  |-> [a \in AssetIds |-> None],
     Balances    |-> [k \in AssetIds \X Accounts |-> 0],
     NextAssetId |-> 0,
     Allowances  |-> [k \in AssetIds \X Accounts \X Accounts |-> 0],
     Events      |-> <<>>]

----------------------------------------------------------------------------
\* Arithmetic of T::TokenBalance.

\* Saturating::saturating_add: clamps at the largest value.
saturating_add(a, b) == IF a + b > MAX THEN MAX ELSE a + b

\* Saturating::saturating_sub: clamps at zero.
saturating_sub(a, b) == IF a < b THEN 0 ELSE a - b

\* CheckedSub::checked_sub: None when the difference would be negative.
checked_sub(a, b) == IF a < b THEN None ELSE Some(a - b)

\* Zero::is_zero.
is_zero(a) == a = 0

\* Arithmetic of T::AssetId, a bounded integer type: adding one to its largest
\* value overflows. A build without overflow checks (a release build, as of
\* the wasm runtime) wraps to 0; a build with them panics.
overflows(id) == id + 1 \notin AssetIds

wrapping_inc(id) == IF overflows(id) THEN 0 ELSE id + 1

----------------------------------------------------------------------------
\* Outcomes and the read-only accessors.

Return(s, r) == [st |-> s, res |-> r, ret |-> None]

deposit_event(s, e) == [s EXCEPT !.Events = Append(@, e)]

total_supply(s, id) == s.TotalSupply[id]

balance_of(s, id, owner) == s.Balances[<<id, owner>>]

allowances(s, id, owner, spender) == s.Allowances[<<id, owner, spender>>]

asset_info(s, id) == s.AssetInfos[id]

next_asset_id(s) == s.NextAssetId

----------------------------------------------------------------------------
\* inner_issue clearing the allowances recorded under the new id.
inner_issue_ResetsAllowances(s, owner, initial_supply, info, overflow_checks) ==
    LET id == next_asset_id(s)
        s1 == [s EXCEPT !.NextAssetId = wrapping_inc(@)]
        s2 == [s1 EXCEPT !.Balances[<<id, owner>>] = initial_supply]
        s3 == [s2 EXCEPT !.TotalSupply[id] = initial_supply]
        s4 == [s3 EXCEPT !.AssetInfos[id] = Some(info)]
        s5 == [s4 EXCEPT !.Allowances =
                  [k \in DOMAIN @ |-> IF k[1] = id THEN 0 ELSE @[k]]]
        s6 == deposit_event(s5, Issued(id, owner, initial_supply))
    IN  IF overflow_checks /\ overflows(id) THEN [st |-> s, res |-> Panic, ret |-> None]
        ELSE [st |-> s6, res |-> Ok, ret |-> Some(id)]

\* inner_issue: take the next id, advance the counter (the addition overflows at
\* the largest id: it panics before anything is written when the build checks
\* overflow, and wraps otherwise), insert the issuer's balance, the supply and
\* the info under the id, deposit Issued, return the id.
inner_issue(s, owner, initial_supply, info, overflow_checks) ==
    LET id == next_asset_id(s)
        s1 == [s EXCEPT !.NextAssetId = wrapping_inc(@)]
        s2 == [s1 EXCEPT !.Balances[<<id, owner>>] = initial_supply]
        s3 == [s2 EXCEPT !.TotalSupply[id] = initial_supply]
        s4 == [s3 EXCEPT !.AssetInfos[id] = Some(info)]
        s5 == deposit_event(s4, Issued(id, owner, initial_supply))
    IN  IF overflow_checks /\ overflows(id) THEN [st |-> s, res |-> Panic, ret |-> None]
        ELSE [st |-> s5, res |-> Ok, ret |-> Some(id)]

\* inner_transfer crediting the target from the balance it had before the debit.
inner_transfer_StaleCredit(s, id, owner, target, amount) ==
    LET owner_balance == balance_of(s, id, owner)
        target_balance == balance_of(s, id, target)
        new_balance == saturating_sub(owner_balance, amount)
        s1 == [s EXCEPT !.Balances[<<id, owner>>] = new_balance]
        s2 == [s1 EXCEPT !.Balances[<<id, target>>] = saturating_add(target_balance, amount)]
        s3 == deposit_event(s2, Transferred(id, owner, target, amount))
    IN  IF is_zero(amount) THEN Return(s, AmountZero)
        ELSE IF ~(owner_balance >= amount) THEN Return(s, BalanceLow)
        ELSE Return(s3, Ok)

\* inner_transfer crediting the target with wrap-around.
inner_transfer_WrappingCredit(s, id, owner, target, amount) ==
    LET owner_balance == balance_of(s, id, owner)
        new_balance == saturating_sub(owner_balance, amount)
        s1 == [s EXCEPT !.Balances[<<id, owner>>] = new_balance]
        s2 == [s1 EXCEPT !.Balances[<<id, target>>] = (@ + amount) % (MAX + 1)]
        s3 == deposit_event(s2, Transferred(id, owner, target, amount))
    IN  IF is_zero(amount) THEN Return(s, AmountZero)
        ELSE IF ~(owner_balance >= amount) THEN Return(s, BalanceLow)
        ELSE Return(s3, Ok)

\* inner_transfer with the balance check off by one (> for >=).
inner_transfer_StrictCheck(s, id, owner, target, amount) ==
    LET owner_balance == balance_of(s, id, owner)
        new_balance == saturating_sub(owner_balance, amount)
        s1 == [s EXCEPT !.Balances[<<id, owner>>] = new_balance]
        s2 == [s1 EXCEPT !.Balances[<<id, target>>] = saturating_add(@, amount)]
        s3 == deposit_event(s2, Transferred(id, owner, target, amount))
    IN  IF is_zero(amount) THEN Return(s, AmountZero)
        ELSE IF ~(owner_balance > amount) THEN Return(s, BalanceLow)
        ELSE Return(s3, Ok)

\* inner_transfer: read the owner's balance, reject a zero amount, reject an
\* amount above the balance, write the owner's balance less the amount, then
\* add the amount (saturating) to whatever the target's entry now holds.
inner_transfer(s, id, owner, target, amount) ==
    LET owner_balance == balance_of(s, id, owner)
        new_balance == saturating_sub(owner_balance, amount)
        s1 == [s EXCEPT !.Balances[<<id, owner>>] = new_balance]
        s2 == [s1 EXCEPT !.Balances[<<id, target>>] = saturating_add(@, amount)]
        s3 == deposit_event(s2, Transferred(id, owner, target, amount))
    IN  IF is_zero(amount) THEN Return(s, AmountZero)
        ELSE IF ~(owner_balance >= amount) THEN Return(s, BalanceLow)
        ELSE Return(s3, Ok)

\* inner_transfer_from looking at the transfer's result before the allowance.
inner_transfer_from_ChecksTransferFirst(s, id, owner, spender, target, amount) ==
    LET allowance == allowances(s, id, owner, spender)
        new_balance == checked_sub(allowance, amount)
        t == inner_transfer(s, id, owner, target, amount)
        s1 == [t.st EXCEPT !.Allowances[<<id, owner, spender>>] = new_balance[1]]
    IN  IF t.res # Ok THEN Return(s, t.res)
        ELSE IF new_balance = None THEN Return(s, AllowanceLow)
        ELSE Return(s1, Ok)

\* inner_transfer_from writing the allowance before delegating the transfer.
inner_transfer_from_EarlyAllowance(s, id, owner, spender, target, amount) ==
    LET allowance == allowances(s, id, owner, spender)
        new_balance == checked_sub(allowance, amount)
        s1 == [s EXCEPT !.Allowances[<<id, owner, spender>>] = new_balance[1]]
        t == inner_transfer(s1, id, owner, target, amount)
    IN  IF new_balance = None THEN Return(s, AllowanceLow)
        ELSE IF t.res # Ok THEN t
        ELSE Return(t.st, Ok)

\* inner_transfer_from without the write of the allowance.
inner_transfer_from_KeepsAllowance(s, id, owner, spender, target, amount) ==
    LET allowance == allowances(s, id, owner, spender)
        new_balance == checked_sub(allowance, amount)
        t == inner_transfer(s, id, owner, target, amount)
    IN  IF new_balance = None THEN Return(s, AllowanceLow)
        ELSE IF t.res # Ok THEN t
        ELSE Return(t.st, Ok)

\* inner_transfer_from writing the allowance under (id, spender, owner).
inner_transfer_from_SwappedKey(s, id, owner, spender, target, amount) ==
    LET allowance == allowances(s, id, owner, spender)
        new_balance == checked_sub(allowance, amount)
        t == inner_transfer(s, id, owner, target, amount)
        s1 == [t.st EXCEPT !.Allowances[<<id, spender, owner>>] = new_balance[1]]
    IN  IF new_balance = None THEN Return(s, AllowanceLow)
        ELSE IF t.res # Ok THEN t
        ELSE Return(s1, Ok)

\* inner_transfer_from depositing a Transferred event of its own.
inner_transfer_from_ExtraEvent(s, id, owner, spender, target, amount) ==
    LET allowance == allowances(s, id, owner, spender)
        new_balance == checked_sub(allowance, amount)
        t == inner_transfer(s, id, owner, target, amount)
        s1 == [t.st EXCEPT !.Allowances[<<id, owner, spender>>] = new_balance[1]]
        s2 == deposit_event(s1, Transferred(id, owner, target, amount))
    IN  IF new_balance = None THEN Return(s, AllowanceLow)
        ELSE IF t.res # Ok THEN t
        ELSE Return(s2, Ok)

\* inner_transfer_from: read the allowance, reject an amount above it, run
\* inner_transfer and return its error if it fails, then write the allowance
\* less the amount.
inner_transfer_from(s, id, owner, spender, target, amount) ==
    LET allowance == allowances(s, id, owner, spender)
        new_balance == checked_sub(allowance, amount)
        t == inner_transfer(s, id, owner, target, amount)
        s1 == [t.st EXCEPT !.Allowances[<<id, owner, spender>>] = new_balance[1]]
    IN  IF new_balance = None THEN Return(s, AllowanceLow)
        ELSE IF t.res # Ok THEN t
        ELSE Return(s1, Ok)

\* inner_approve adding the amount to the allowance.
inner_approve_Additive(s, id, owner, spender, amount) ==
    LET s1 == [s EXCEPT !.Allowances[<<id, owner, spender>>] = saturating_add(@, amount)]
        s2 == deposit_event(s1, Approval(id, owner, spender, amount))
    IN  Return(s2, Ok)

\* inner_approve: write the amount as the allowance, deposit Approval.
inner_approve(s, id, owner, spender, amount) ==
    LET s1 == [s EXCEPT !.Allowances[<<id, owner, spender>>] = amount]
        s2 == deposit_event(s1, Approval(id, owner, spender, amount))
    IN  Return(s2, Ok)

\* inner_mint without the check that the asset exists.
inner_mint_NoExistenceCheck(s, id, owner, amount) ==
    LET new_balance == saturating_add(balance_of(s, id, owner), amount)
        s1 == [s EXCEPT !.Balances[<<id, owner>>] = new_balance]
        s2 == [s1 EXCEPT !.TotalSupply[id] = saturating_add(@, amount)]
        s3 == deposit_event(s2, Minted(id, owner, amount))
    IN  Return(s3, Ok)

\* inner_mint adding to the supply with wrap-around.
inner_mint_WrappingSupply(s, id, owner, amount) ==
    LET new_balance == saturating_add(balance_of(s, id, owner), amount)
        s1 == [s EXCEPT !.Balances[<<id, owner>>] = new_balance]
        s2 == [s1 EXCEPT !.TotalSupply[id] = (@ + amount) % (MAX + 1)]
        s3 == deposit_event(s2, Minted(id, owner, amount))
    IN  IF ~is_some(asset_info(s, id)) THEN Return(s, AssetNotExists)
        ELSE Return(s3, Ok)

\* inner_mint: reject an id without an AssetInfo, write the account's balance
\* plus the amount (saturating), add the amount to the supply (saturating),
\* deposit Minted.
inner_mint(s, id, owner, amount) ==
    LET new_balance == saturating_add(balance_of(s, id, owner), amount)
        s1 == [s EXCEPT !.Balances[<<id, owner>>] = new_balance]
        s2 == [s1 EXCEPT !.TotalSupply[id] = saturating_add(@, amount)]
        s3 == deposit_event(s2, Minted(id, owner, amount))
    IN  IF ~is_some(asset_info(s, id)) THEN Return(s, AssetNotExists)
        ELSE Return(s3, Ok)

\* inner_burn looking at the balance before the AssetInfo.
inner_burn_BalanceFirst(s, id, owner, amount) ==
    LET new_balance == checked_sub(balance_of(s, id, owner), amount)
        s1 == [s EXCEPT !.Balances[<<id, owner>>] = new_balance[1]]
        s2 == [s1 EXCEPT !.TotalSupply[id] = saturating_sub(@, amount)]
        s3 == deposit_event(s2, Burned(id, owner, amount))
    IN  IF new_balance = None THEN Return(s, BalanceLow)
        ELSE IF ~is_some(asset_info(s, id)) THEN Return(s, AssetNotExists)
        ELSE Return(s3, Ok)

\* inner_burn: reject an id without an AssetInfo, reject an amount above the
\* account's balance, write the balance less the amount, subtract the amount
\* from the supply (saturating), deposit Burned.
inner_burn(s, id, owner, amount) ==
    LET new_balance == checked_sub(balance_of(s, id, owner), amount)
        s1 == [s EXCEPT !.Balances[<<id, owner>>] = new_balance[1]]
        s2 == [s1 EXCEPT !.TotalSupply[id] = saturating_sub(@, amount)]
        s3 == deposit_event(s2, Burned(id, owner, amount))
    IN  IF ~is_some(asset_info(s, id)) THEN Return(s, AssetNotExists)
        ELSE IF new_balance = None THEN Return(s, BalanceLow)
        ELSE Return(s3, Ok)

----------------------------------------------------------------------------
\* The dispatchables: ensure_signed, the lookups, then the inner function.

\* The origins of a call: signed by an account, or not signed.
Origins == Accounts \cup {"root"}

\* The addresses a caller can pass (StaticLookup::Source): those the runtime's
\* Lookup resolves to an account, and one it does not.
Sources == Accounts \cup {"unknown"}

ensure_signed(origin) == IF origin \in Accounts THEN Some(origin) ELSE None

lookup(a) == IF a \in Accounts THEN Some(a) ELSE None

issue(s, origin, total, info, overflow_checks) ==
    IF ensure_signed(origin) = None THEN Return(s, BadOrigin)
    ELSE inner_issue(s, ensure_signed(origin)[1], total, info, overflow_checks)

approve(s, origin, id, spender, amount) ==
    IF ensure_signed(origin) = None THEN Return(s, BadOrigin)
    ELSE IF lookup(spender) = None THEN Return(s, CannotLookup)
    ELSE inner_approve(s, id, ensure_signed(origin)[1], lookup(spender)[1], amount)

transfer(s, origin, id, target, amount) ==
    IF ensure_signed(origin) = None THEN Return(s, BadOrigin)
    ELSE IF lookup(target) = None THEN Return(s, CannotLookup)
    ELSE inner_transfer(s, id, ensure_signed(origin)[1], lookup(target)[1], amount)

transfer_from(s, origin, id, from, target, amount) ==
    IF ensure_signed(origin) = None THEN Return(s, BadOrigin)
    ELSE IF lookup(from) = None THEN Return(s, CannotLookup)
    ELSE IF lookup(target) = None THEN Return(s, CannotLookup)
    ELSE inner_transfer_from(s, id, lookup(from)[1], ensure_signed(origin)[1],
                             lookup(target)[1], amount)

----------------------------------------------------------------------------
\* The state machine: one action per callable operation.

\* The store a call starts from: the storage, with no event deposited yet.
Begin == [Store EXCEPT !.Events = <<>>]

\* The record of no call.
NoCall == [op |-> "none", args |-> None, res |-> Ok, ret |-> None]

\* No call in progress.
NoFrame == [op |-> "none"]

\* The ids returned by issue, after a call of op that returned ret.
issued_after(op, ret) ==
    IF op = "issue" /\ ret # None THEN Append(issued, ret[1]) ELSE issued

\* The approvals and what was moved under them, after a call of op with
\* arguments c and result res.
grants_after(op, c, res) ==
    IF op = "approve" /\ res = Ok
    THEN [grants EXCEPT ![<<c.id, c.owner, c.spender>>] =
             [approved |-> c.amount, spent |-> 0]]
    ELSE IF op = "transfer_from" /\ res = Ok
    THEN [grants EXCEPT ![<<c.id, c.owner, c.spender>>].spent = @ + c.amount]
    ELSE grants

\* A call of operation op with arguments c and outcome r takes the storage to
\* r.st and is recorded in last, pre, issued and calls. The host runs one call
\* at a time: a call starts when the one before it has been closed.
Commit(limit, op, c, r) ==
    /\ last = NoCall
    /\ calls < limit
    /\ TotalSupply' = r.st.TotalSupply
    /\ AssetInfos' = r.st.AssetInfos
    /\ Balances' = r.st.Balances
    /\ NextAssetId' = r.st.NextAssetId
    /\ Allowances' = r.st.Allowances
    /\ Events' = r.st.Events
    /\ last' = [op |-> op, args |-> c, res |-> r.res, ret |-> r.ret]
    /\ pre' = Begin
    /\ issued' = issued_after(op, r.ret)
    /\ calls' = calls + 1
    /\ grants' = grants_after(op, c, r.res)
    /\ UNCHANGED frame

Init ==
    /\ TotalSupply = EmptyStore.TotalSupply
    /\ AssetInfos = EmptyStore.AssetInfos
    /\ Balances = EmptyStore.Balances
    /\ NextAssetId = EmptyStore.NextAssetId
    /\ Allowances = EmptyStore.Allowances
    /\ Events = EmptyStore.Events
    /\ last = NoCall
    /\ pre = EmptyStore
    /\ issued = <<>>
    /\ calls = 0
    /\ grants = [k \in AssetIds \X Accounts \X Accounts |->
                    [approved |-> 0, spent |-> 0]]
    /\ frame = NoFrame

\* A call of a dispatchable that ensure_signed or the lookup turned away is
\* recorded under "unsigned" or "unresolved" with the dispatchable's name; one
\* that reached the inner function is recorded under the dispatchable's name
\* with the resolved accounts.
Entered(call, r) ==
    IF r.res = BadOrigin THEN "unsigned"
    ELSE IF r.res = CannotLookup THEN "unresolved"
    ELSE call

Passed(call, r, c) == IF r.res \in {BadOrigin, CannotLookup} THEN [call |-> call] ELSE c

\* The calls of each dispatchable that the runs make: every call with a signed
\* origin and addresses the Lookup resolves, one call with an origin that is
\* not signed, and one call for each address that the Lookup does not resolve.
IssueCalls ==
    [origin : Accounts, total : Amounts, info : AssetInfo, overflow_checks : BOOLEAN]
    \cup [origin : {"root"}, total : {1}, info : AssetInfo, overflow_checks : {FALSE}]

ApproveCalls ==
    [origin : Accounts, id : AssetIds, spender : Accounts, amount : Amounts]
    \cup [origin : {"root"}, id : {0}, spender : {"A"}, amount : {1}]
    \cup [origin : {"A"}, id : {0}, spender : {"unknown"}, amount : {1}]

TransferCalls ==
    [origin : Accounts, id : AssetIds, target : Accounts, amount : Amounts]
    \cup [origin : {"root"}, id : {0}, target : {"A"}, amount : {1}]
    \cup [origin : {"A"}, id : {0}, target : {"unknown"}, amount : {1}]

TransferFromCalls ==
    [origin : Accounts, id : AssetIds, from : Accounts, target : Accounts,
     amount : Amounts]
    \cup [origin : {"root"}, id : {0}, from : {"A"}, target : {"B"}, amount : {1}]
    \cup [origin : {"B"}, id : {0}, from : {"unknown"}, target : {"B"}, amount : {1}]
    \cup [origin : {"B"}, id : {0}, from : {"A"}, target : {"unknown"}, amount : {1}]

\* fn issue(origin, total, asset_info).
Issue(limit) ==
    \E c \in IssueCalls :
        LET r == issue(Begin, c.origin, c.total, c.info, c.overflow_checks)
        IN  Commit(limit, Entered("issue", r),
                   Passed("issue", r,
                          [owner |-> c.origin, amount |-> c.total, info |-> c.info]),
                   r)

\* fn approve(origin, id, spender, amount).
Approve(limit) ==
    \E c \in ApproveCalls :
        LET r == approve(Begin, c.origin, c.id, c.spender, c.amount)
        IN  Commit(limit, Entered("approve", r),
                   Passed("approve", r,
                          [id |-> c.id, owner |-> c.origin, spender |-> c.spender,
                           amount |-> c.amount]),
                   r)

\* fn transfer(origin, id, target, amount).
Transfer(limit) ==
    \E c \in TransferCalls :
        LET r == transfer(Begin, c.origin, c.id, c.target, c.amount)
        IN  Commit(limit, Entered("transfer", r),
                   Passed("transfer", r,
                          [id |-> c.id, owner |-> c.origin, target |-> c.target,
                           amount |-> c.amount]),
                   r)

\* fn transfer_from(origin, id, from, target, amount).
TransferFrom(limit) ==
    \E c \in TransferFromCalls :
        LET r == transfer_from(Begin, c.origin, c.id, c.from, c.target, c.amount)
        IN  Commit(limit, Entered("transfer_from", r),
                   Passed("transfer_from", r,
                          [id |-> c.id, owner |-> c.from, spender |-> c.origin,
                           target |-> c.target, amount |-> c.amount]),
                   r)

\* A call of inner_mint by another module of the runtime.
Mint(limit) ==
    \E id \in AssetIds, owner \in Accounts, amount \in Amounts :
        Commit(limit, "mint",
               [id |-> id, owner |-> owner, amount |-> amount],
               inner_mint(Begin, id, owner, amount))

\* A call of inner_burn by another module of the runtime.
Burn(limit) ==
    \E id \in AssetIds, owner \in Accounts, amount \in Amounts :
        Commit(limit, "burn",
               [id |-> id, owner |-> owner, amount |-> amount],
               inner_burn(Begin, id, owner, amount))

\* The host closes the call: its outcome and its events have been read, the
\* next block starts with no events, and the storage stays as the call left it.
NextCall ==
    /\ last # NoCall
    /\ Events' = <<>>
    /\ last' = NoCall
    /\ pre' = Begin
    /\ UNCHANGED <<TotalSupply, AssetInfos, Balances, NextAssetId, Allowances,
                   issued, calls, grants, frame>>

Next ==
    \/ Issue(MaxCalls)
    \/ Approve(MaxCalls)
    \/ Transfer(MaxCalls)
    \/ TransferFrom(MaxCalls)
    \/ Mint(MaxCalls)
    \/ Burn(MaxCalls)
    \/ NextCall

Spec == Init /\ [][Next]_vars

\* Longer runs of the same calls.
SupplyNext ==
    \/ Issue(SupplyCalls)
    \/ Approve(SupplyCalls)
    \/ Transfer(SupplyCalls)
    \/ TransferFrom(SupplyCalls)
    \/ Mint(SupplyCalls)
    \/ Burn(SupplyCalls)
    \/ NextCall

SupplySpec == Init /\ [][SupplyNext]_vars

----------------------------------------------------------------------------
\* The operations statement by statement. Each operation is the sequence of its
\* storage reads, checks, writes and event deposits, in the order of the source;
\* the host runs the statements of one call one after the other and returns at
\* the first check that fails, leaving the storage as the statements before it
\* left it.

\* The largest number of calls in a run that goes statement by statement.
StepCalls == 3

Operations == {"issue", "approve", "transfer", "transfer_from", "mint", "burn"}

\* The arguments of a call of each operation.
CallArgs(op) ==
    CASE op = "issue" -> [owner : Accounts, amount : Amounts, info : AssetInfo,
                          overflow_checks : BOOLEAN]
      [] op = "approve" ->
             [id : AssetIds, owner : Accounts, spender : Accounts, amount : Amounts]
      [] op = "transfer" ->
             [id : AssetIds, owner : Accounts, target : Accounts, amount : Amounts]
      [] op = "transfer_from" ->
             [id : AssetIds, owner : Accounts, spender : Accounts,
              target : Accounts, amount : Amounts]
      [] op = "mint" -> [id : AssetIds, owner : Accounts, amount : Amounts]
      [] op = "burn" -> [id : AssetIds, owner : Accounts, amount : Amounts]

\* A statement: its label and what it is (a read of storage into a local, a
\* check that can fail, a write of storage, or the deposit of an event).
Stmt(lab, kind) == [lab |-> lab, kind |-> kind]

\* The locals of a call: id of inner_issue; owner_balance of inner_transfer and
\* the balance read by inner_burn; new_balance of inner_transfer_from,
\* inner_mint and inner_burn; allowance of inner_transfer_from.
NoLocals == [id |-> 0, owner_balance |-> 0, new_balance |-> 0, allowance |-> 0]

issue_steps ==
    << Stmt("issue_read_next_asset_id", "read"),
       Stmt("issue_mutate_next_asset_id", "write"),
       Stmt("issue_insert_balance", "write"),
       Stmt("issue_insert_total_supply", "write"),
       Stmt("issue_insert_asset_info", "write"),
       Stmt("issue_deposit_event", "event") >>

transfer_steps ==
    << Stmt("transfer_read_balance", "read"),
       Stmt("transfer_ensure_amount", "check"),
       Stmt("transfer_ensure_balance", "check"),
       Stmt("transfer_mutate_owner", "write"),
       Stmt("transfer_mutate_target", "write"),
       Stmt("transfer_deposit_event", "event") >>

\* inner_transfer_from writing the allowance right after its own check.
transfer_from_steps_EarlyAllowance ==
    << Stmt("transfer_from_read_allowance", "read"),
       Stmt("transfer_from_checked_sub", "check"),
       Stmt("transfer_from_mutate_allowance", "write") >>
    \o transfer_steps

\* inner_transfer_from: its read and its check, the statements of
\* inner_transfer, its write.
transfer_from_steps ==
    << Stmt("transfer_from_read_allowance", "read"),
       Stmt("transfer_from_checked_sub", "check") >>
    \o transfer_steps
    \o << Stmt("transfer_from_mutate_allowance", "write") >>

approve_steps ==
    << Stmt("approve_mutate_allowance", "write"),
       Stmt("approve_deposit_event", "event") >>

mint_steps ==
    << Stmt("mint_ensure_exists", "check"),
       Stmt("mint_read_balance", "read"),
       Stmt("mint_mutate_balance", "write"),
       Stmt("mint_mutate_total_supply", "write"),
       Stmt("mint_deposit_event", "event") >>

burn_steps ==
    << Stmt("burn_ensure_exists", "check"),
       Stmt("burn_read_balance", "read"),
       Stmt("burn_checked_sub", "check"),
       Stmt("burn_mutate_balance", "write"),
       Stmt("burn_mutate_total_supply", "write"),
       Stmt("burn_deposit_event", "event") >>

Program(op) ==
    CASE op = "issue" -> issue_steps
      [] op = "approve" -> approve_steps
      [] op = "transfer" -> transfer_steps
      [] op = "transfer_from" -> transfer_from_steps
      [] op = "mint" -> mint_steps
      [] op = "burn" -> burn_steps

\* A statement that goes on to the next one, and one that returns an error.
Continue(s, loc) == [st |-> s, loc |-> loc, res |-> Ok]
Raise(s, loc, e) == [st |-> s, loc |-> loc, res |-> e]

\* One statement, run on store s with locals loc in a call with arguments c.
Exec(lab, s, loc, c) ==
    CASE lab = "issue_read_next_asset_id" ->
             Continue(s, [loc EXCEPT !.id = next_asset_id(s)])
      [] lab = "issue_mutate_next_asset_id" ->
             IF c.overflow_checks /\ overflows(s.NextAssetId) THEN Raise(s, loc, Panic)
             ELSE Continue([s EXCEPT !.NextAssetId = wrapping_inc(@)], loc)
      [] lab = "issue_insert_balance" ->
             Continue([s EXCEPT !.Balances[<<loc.id, c.owner>>] = c.amount], loc)
      [] lab = "issue_insert_total_supply" ->
             Continue([s EXCEPT !.TotalSupply[loc.id] = c.amount], loc)
      [] lab = "issue_insert_asset_info" ->
             Continue([s EXCEPT !.AssetInfos[loc.id] = Some(c.info)], loc)
      [] lab = "issue_deposit_event" ->
             Continue(deposit_event(s, Issued(loc.id, c.owner, c.amount)), loc)
      [] lab = "transfer_read_balance" ->
             Continue(s, [loc EXCEPT !.owner_balance = balance_of(s, c.id, c.owner)])
      [] lab = "transfer_ensure_amount" ->
             IF is_zero(c.amount) THEN Raise(s, loc, AmountZero) ELSE Continue(s, loc)
      [] lab = "transfer_ensure_balance" ->
             IF ~(loc.owner_balance >= c.amount) THEN Raise(s, loc, BalanceLow)
             ELSE Continue(s, loc)
      [] lab = "transfer_mutate_owner" ->
             Continue([s EXCEPT !.Balances[<<c.id, c.owner>>] =
                          saturating_sub(loc.owner_balance, c.amount)], loc)
      [] lab = "transfer_mutate_target" ->
             Continue([s EXCEPT !.Balances[<<c.id, c.target>>] =
                          saturating_add(@, c.amount)], loc)
      [] lab = "transfer_deposit_event" ->
             Continue(deposit_event(s, Transferred(c.id, c.owner, c.target, c.amount)),
                      loc)
      [] lab = "transfer_from_read_allowance" ->
             Continue(s, [loc EXCEPT !.allowance =
                             allowances(s, c.id, c.owner, c.spender)])
      [] lab = "transfer_from_checked_sub" ->
             LET new_balance == checked_sub(loc.allowance, c.amount)
             IN  IF new_balance = None THEN Raise(s, loc, AllowanceLow)
                 ELSE Continue(s, [loc EXCEPT !.new_balance = new_balance[1]])
      [] lab = "transfer_from_mutate_allowance" ->
             Continue([s EXCEPT !.Allowances[<<c.id, c.owner, c.spender>>] =
                          loc.new_balance], loc)
      [] lab = "approve_mutate_allowance" ->
             Continue([s EXCEPT !.Allowances[<<c.id, c.owner, c.spender>>] = c.amount],
                      loc)
      [] lab = "approve_deposit_event" ->
             Continue(deposit_event(s, Approval(c.id, c.owner, c.spender, c.amount)),
                      loc)
      [] lab = "mint_ensure_exists" ->
             IF ~is_some(asset_info(s, c.id)) THEN Raise(s, loc, AssetNotExists)
             ELSE Continue(s, loc)
      [] lab = "mint_read_balance" ->
             Continue(s, [loc EXCEPT !.new_balance =
                             saturating_add(balance_of(s, c.id, c.owner), c.amount)])
      [] lab = "mint_mutate_balance" ->
             Continue([s EXCEPT !.Balances[<<c.id, c.owner>>] = loc.new_balance], loc)
      [] lab = "mint_mutate_total_supply" ->
             Continue([s EXCEPT !.TotalSupply[c.id] = saturating_add(@, c.amount)], loc)
      [] lab = "mint_deposit_event" ->
             Continue(deposit_event(s, Minted(c.id, c.owner, c.amount)), loc)
      [] lab = "burn_ensure_exists" ->
             IF ~is_some(asset_info(s, c.id)) THEN Raise(s, loc, AssetNotExists)
             ELSE Continue(s, loc)
      [] lab = "burn_read_balance" ->
             Continue(s, [loc EXCEPT !.owner_balance = balance_of(s, c.id, c.owner)])
      [] lab = "burn_checked_sub" ->
             LET new_balance == checked_sub(loc.owner_balance, c.amount)
             IN  IF new_balance = None THEN Raise(s, loc, BalanceLow)
                 ELSE Continue(s, [loc EXCEPT !.new_balance = new_balance[1]])
      [] lab = "burn_mutate_balance" ->
             Continue([s EXCEPT !.Balances[<<c.id, c.owner>>] = loc.new_balance], loc)
      [] lab = "burn_mutate_total_supply" ->
             Continue([s EXCEPT !.TotalSupply[c.id] = saturating_sub(@, c.amount)], loc)
      [] lab = "burn_deposit_event" ->
             Continue(deposit_event(s, Burned(c.id, c.owner, c.amount)), loc)

\* The statement the call in progress is at, and what running it gives.
Current == Program(frame.op)[frame.pc]
Stepped == Exec(Current.lab, Store, frame.loc, frame.args)

\* The storage becomes what the statement left.
Written(r) ==
    /\ TotalSupply' = r.st.TotalSupply
    /\ AssetInfos' = r.st.AssetInfos
    /\ Balances' = r.st.Balances
    /\ NextAssetId' = r.st.NextAssetId
    /\ Allowances' = r.st.Allowances
    /\ Events' = r.st.Events

\* The call in progress returns with the result of its last statement.
Returned(r) ==
    LET ret == IF frame.op = "issue" /\ r.res = Ok THEN Some(r.loc.id) ELSE None
    IN  /\ last' = [op |-> frame.op, args |-> frame.args, res |-> r.res, ret |-> ret]
        /\ issued' = issued_after(frame.op, ret)
        /\ grants' = grants_after(frame.op, frame.args, r.res)
        /\ frame' = NoFrame

\* A call starts: the host runs one call at a time.
Dispatch(limit) ==
    /\ last = NoCall
    /\ frame = NoFrame
    /\ calls < limit
    /\ \E op \in Operations : \E c \in CallArgs(op) :
           frame' = [op |-> op, args |-> c, pc |-> 1, loc |-> NoLocals]
    /\ pre' = Begin
    /\ calls' = calls + 1
    /\ UNCHANGED <<TotalSupply, AssetInfos, Balances, NextAssetId, Allowances,
                   Events, last, issued, grants>>

\* A statement that is not the last one runs and does not fail.
Advance ==
    /\ frame # NoFrame
    /\ Stepped.res = Ok
    /\ frame.pc < Len(Program(frame.op))
    /\ Written(Stepped)
    /\ frame' = [frame EXCEPT !.pc = @ + 1, !.loc = Stepped.loc]
    /\ UNCHANGED <<last, pre, issued, calls, grants>>

\* A check fails: the call returns its error.
Abort ==
    /\ frame # NoFrame
    /\ Stepped.res # Ok
    /\ Written(Stepped)
    /\ Returned(Stepped)
    /\ UNCHANGED <<pre, calls>>

\* The last statement runs: the call returns Ok.
Complete ==
    /\ frame # NoFrame
    /\ Stepped.res = Ok
    /\ frame.pc = Len(Program(frame.op))
    /\ Written(Stepped)
    /\ Returned(Stepped)
    /\ UNCHANGED <<pre, calls>>

StepNext ==
    \/ Dispatch(StepCalls)
    \/ Advance
    \/ Abort
    \/ Complete
    \/ NextCall

StepSpec == Init /\ [][StepNext]_vars

----------------------------------------------------------------------------
\* Vocabulary of the properties.

\* The five storage items of a store, without the events.
Tables(s) ==
    [TotalSupply |-> s.TotalSupply, AssetInfos |-> s.AssetInfos,
     Balances |-> s.Balances, NextAssetId |-> s.NextAssetId,
     Allowances |-> s.Allowances]

RECURSIVE SumOver(_, _, _)
\* The sum of the balances of asset a over the accounts of S.
SumOver(bal, a, S) ==
    IF S = {} THEN 0
    ELSE LET x == CHOOSE y \in S : TRUE
         IN  bal[<<a, x>>] + SumOver(bal, a, S \ {x})

Min(a, b) == IF a < b THEN a ELSE b

\* No issue call so far has returned id.
NeverIssued(id) == \A i \in 1..Len(issued) : issued[i] # id

\* The latest call was operation op, and its outcome is there to read.
Called(op) == last.op = op

----------------------------------------------------------------------------
\* C1. Conservation: in every reachable state, for every asset id a,
\* TotalSupply[a] equals the sum of Balances[(a, acct)] over all accounts.
C1_Conservation ==
    \A a \in AssetIds : TotalSupply[a] = SumOver(Balances, a, Accounts)

\* C2. All-or-nothing failure: when transfer, transfer_from, mint or burn
\* returns an error, TotalSupply, AssetInfos, Balances, Allowances and
\* NextAssetId are what they were before the call.
C2_FailureLeavesTables ==
    (last.op \in {"transfer", "transfer_from", "mint", "burn"} /\ last.res # Ok)
        => Tables(Store) = Tables(pre)

\* A transfer_from that passed its allowance check on a positive allowance and
\* then failed in the transfer it delegates to.
C2_Witness ==
    /\ Called("transfer_from")
    /\ last.res = BalanceLow
    /\ last.args.amount > 0
    /\ pre.Allowances[<<last.args.id, last.args.owner, last.args.spender>>]
           >= last.args.amount

\* A transfer_from call left some balance changed while the allowance of
\* (id, owner, spender) is not lower than before the call.
MovedUndiminished ==
    LET k == <<last.args.id, last.args.owner, last.args.spender>>
    IN  /\ Balances # pre.Balances
        /\ Allowances[k] >= pre.Allowances[k]

\* A transfer_from call left the allowance of (id, owner, spender) lower than
\* before the call while every balance is what it was.
DiminishedUnmoved ==
    LET k == <<last.args.id, last.args.owner, last.args.spender>>
    IN  /\ Allowances[k] < pre.Allowances[k]
        /\ Balances = pre.Balances

\* What transfer_from does to the allowance and the balances: on success the
\* allowance of (id, owner, spender) is exactly amount lower and the balances
\* are exactly as transfer(id, owner, target, amount) from the same store
\* leaves them; on failure neither that allowance nor any balance changes.
ConsumesWithTransfer ==
    LET c == last.args
        k == <<c.id, c.owner, c.spender>>
        direct == inner_transfer(pre, c.id, c.owner, c.target, c.amount)
    IN  IF last.res = Ok
        THEN /\ Allowances[k] = pre.Allowances[k] - c.amount
             /\ direct.res = Ok
             /\ Balances = direct.st.Balances
        ELSE /\ Allowances[k] = pre.Allowances[k]
             /\ Balances = pre.Balances

\* C3 as stated. Atomic allowance consumption: a successful transfer_from
\* leaves the allowance exactly amount lower and the balances as a direct
\* transfer would, a failing one changes neither; and no transfer_from leaves
\* the balances moved with the allowance undiminished, or the allowance
\* diminished with the balances unmoved. Refuted by a successful transfer_from
\* whose target is the owner.
C3_Original ==
    Called("transfer_from") =>
        /\ ConsumesWithTransfer
        /\ ~MovedUndiminished
        /\ ~DiminishedUnmoved

\* C3. Atomic allowance consumption: a successful transfer_from leaves the
\* allowance of (id, owner, spender) exactly amount lower and the balances
\* exactly as transfer(id, owner, target, amount) from the same store leaves
\* them; a failing one changes neither that allowance nor any balance. No
\* transfer_from leaves the balances moved with the allowance undiminished;
\* one leaves the allowance diminished with the balances unmoved exactly when
\* it succeeds with target = owner, where the transfer it applies credits
\* back what it debits.
C3_AtomicAllowance ==
    Called("transfer_from") =>
        /\ ConsumesWithTransfer
        /\ ~MovedUndiminished
        /\ DiminishedUnmoved <=>
               (last.res = Ok /\ last.args.owner = last.args.target)

\* A successful transfer_from between two accounts: the balances moved and
\* the allowance is lower by the amount.
C3_Witness ==
    /\ Called("transfer_from")
    /\ last.res = Ok
    /\ last.args.owner # last.args.target
    /\ Balances # pre.Balances
    /\ Allowances[<<last.args.id, last.args.owner, last.args.spender>>]
           = pre.Allowances[<<last.args.id, last.args.owner, last.args.spender>>]
                 - last.args.amount

\* C4. transfer fails with AmountZero on a zero amount and with BalanceLow on
\* an amount above the owner's balance; otherwise it succeeds and, for
\* owner # target, the owner's balance is its old value less the amount and
\* the target's is min(old value + amount, MAX).
C4_Transfer ==
    Called("transfer") =>
        LET c == last.args
            ob == pre.Balances[<<c.id, c.owner>>]
            tb == pre.Balances[<<c.id, c.target>>]
        IN  IF c.amount = 0 THEN last.res = AmountZero
            ELSE IF ob < c.amount THEN last.res = BalanceLow
            ELSE /\ last.res = Ok
                 /\ c.owner # c.target =>
                        /\ Balances[<<c.id, c.owner>>] = ob - c.amount
                        /\ Balances[<<c.id, c.target>>] = Min(tb + c.amount, MAX)

\* A successful transfer between two accounts whose credit was clamped at MAX.
C4_Witness ==
    /\ Called("transfer")
    /\ last.res = Ok
    /\ last.args.owner # last.args.target
    /\ pre.Balances[<<last.args.id, last.args.target>>] + last.args.amount > MAX
    /\ Balances[<<last.args.id, last.args.target>>] = MAX

\* C5, as stated: unknown asset ids are not rejected by transfer, so that a
\* transfer of a positive amount on an asset id that was never issued returns
\* success.
C5_Original ==
    (Called("transfer") /\ NeverIssued(last.args.id) /\ last.args.amount > 0)
        => last.res = Ok

\* C5, amended: transfer makes no existence check, yet on an asset id that was
\* never issued it never succeeds: every balance of such an id is 0, so the
\* call returns AmountZero for a zero amount and BalanceLow for any other.
C5_UnissuedTransferFails ==
    (Called("transfer") /\ NeverIssued(last.args.id)) =>
        /\ \A a \in Accounts : pre.Balances[<<last.args.id, a>>] = 0
        /\ last.res = IF last.args.amount = 0 THEN AmountZero ELSE BalanceLow

\* A transfer of a positive amount on a never-issued id, rejected for its balance.
C5_Witness ==
    /\ Called("transfer")
    /\ NeverIssued(last.args.id)
    /\ last.args.amount > 0
    /\ last.res = BalanceLow

\* C6. burn fails with AssetNotExists on an id without AssetInfo and with
\* BalanceLow on an amount above the account's balance; when it succeeds both
\* the account's balance and TotalSupply[id] are exactly amount lower.
C6_Burn ==
    Called("burn") =>
        LET c == last.args
            b == pre.Balances[<<c.id, c.owner>>]
        IN  IF pre.AssetInfos[c.id] = None THEN last.res = AssetNotExists
            ELSE IF b < c.amount THEN last.res = BalanceLow
            ELSE /\ last.res = Ok
                 /\ Balances[<<c.id, c.owner>>] = b - c.amount
                 /\ TotalSupply[c.id] = pre.TotalSupply[c.id] - c.amount

\* C7. mint fails with AssetNotExists, changing nothing, on an id without
\* AssetInfo; otherwise it succeeds, the account's balance becomes
\* min(old + amount, MAX) and TotalSupply[id] becomes min(old + amount, MAX),
\* each clamped on its own, and nothing else changes; a mint of 0 on an
\* existing asset succeeds and changes no table.
C7_Mint ==
    Called("mint") =>
        LET c == last.args
            k == <<c.id, c.owner>>
        IN  IF pre.AssetInfos[c.id] = None
            THEN /\ last.res = AssetNotExists
                 /\ Tables(Store) = Tables(pre)
            ELSE /\ last.res = Ok
                 /\ Balances =
                        [pre.Balances EXCEPT ![k] = Min(@ + c.amount, MAX)]
                 /\ TotalSupply =
                        [pre.TotalSupply EXCEPT ![c.id] = Min(@ + c.amount, MAX)]
                 /\ AssetInfos = pre.AssetInfos
                 /\ Allowances = pre.Allowances
                 /\ NextAssetId = pre.NextAssetId
                 /\ c.amount = 0 => Tables(Store) = Tables(pre)

\* A successful mint whose supply was clamped while its balance was not.
C7_Witness ==
    /\ Called("mint")
    /\ last.res = Ok
    /\ pre.Balances[<<last.args.id, last.args.owner>>] + last.args.amount <= MAX
    /\ pre.TotalSupply[last.args.id] + last.args.amount > MAX
    /\ TotalSupply[last.args.id] = MAX

\* C8. Asset id allocation: the first issue returns 0 and each later one the
\* previous id plus one, so no id is returned twice; NextAssetId never
\* decreases and no operation other than issue changes it.
C8_AssetIdAllocation ==
    /\ \A i \in 1..Len(issued) : issued[i] = i - 1
    /\ \A i, j \in 1..Len(issued) : i # j => issued[i] # issued[j]
    /\ NextAssetId >= pre.NextAssetId
    /\ NextAssetId # pre.NextAssetId => Called("issue")

\* C9. issue always succeeds, for every initial supply including 0, and with
\* id the returned identifier: AssetInfos[id] is the info, TotalSupply[id] and
\* the issuer's balance are the initial supply, every other account's balance
\* of id is 0, and the entries of every other asset id are unchanged.
C9_Issue ==
    Called("issue") =>
        LET c == last.args
            id == last.ret[1]
        IN  /\ last.res = Ok
            /\ AssetInfos[id] = Some(c.info)
            /\ TotalSupply[id] = c.amount
            /\ Balances[<<id, c.owner>>] = c.amount
            /\ \A a \in Accounts \ {c.owner} : Balances[<<id, a>>] = 0
            /\ \A b \in AssetIds \ {id} :
                   /\ AssetInfos[b] = pre.AssetInfos[b]
                   /\ TotalSupply[b] = pre.TotalSupply[b]
                   /\ \A a \in Accounts : Balances[<<b, a>>] = pre.Balances[<<b, a>>]
                   /\ \A o, s \in Accounts :
                          Allowances[<<b, o, s>>] = pre.Allowances[<<b, o, s>>]

\* C10. approve always succeeds, whether or not the asset exists and whatever
\* the owner's balance, and sets the allowance of (id, owner, spender) to the
\* amount, overwriting what was there; no balance, no supply and no other
\* allowance changes.
C10_Approve ==
    Called("approve") =>
        LET c == last.args
            k == <<c.id, c.owner, c.spender>>
        IN  /\ last.res = Ok
            /\ Allowances = [pre.Allowances EXCEPT ![k] = c.amount]
            /\ Balances = pre.Balances
            /\ TotalSupply = pre.TotalSupply

\* approve(a, o, s, 1) then approve(a, o, s, 1) on an asset that does not
\* exist: the run holds these two calls only, and the allowance is 1, not 2.
C10_Witness ==
    /\ Called("approve")
    /\ calls = 2
    /\ pre.AssetInfos[last.args.id] = None
    /\ pre.Allowances[<<last.args.id, last.args.owner, last.args.spender>>] = 1
    /\ last.args.amount = 1
    /\ Allowances[<<last.args.id, last.args.owner, last.args.spender>>] = 1


\* The event a successful call of the latest operation deposits.
OwnEvent ==
    LET c == last.args
    IN  CASE Called("issue") -> Issued(last.ret[1], c.owner, c.amount)
          [] Called("transfer") -> Transferred(c.id, c.owner, c.target, c.amount)
          [] Called("transfer_from") -> Transferred(c.id, c.owner, c.target, c.amount)
          [] Called("approve") -> Approval(c.id, c.owner, c.spender, c.amount)
          [] Called("mint") -> Minted(c.id, c.owner, c.amount)
          [] Called("burn") -> Burned(c.id, c.owner, c.amount)

\* C11. Notifications: a successful issue, transfer, approve, mint or burn
\* deposits exactly one event, of its own shape, with the call's asset id,
\* accounts and amount; a successful transfer_from deposits exactly one
\* Transferred(id, owner, target, amount); a call that returns an error
\* deposits none.
C11_Notifications ==
    ~Called("none") =>
        Events = IF last.res = Ok THEN <<OwnEvent>> ELSE <<>>

\* A successful transfer_from with its single Transferred event.
C11_Witness ==
    /\ Called("transfer_from")
    /\ last.res = Ok
    /\ Events = <<Transferred(last.args.id, last.args.owner, last.args.target,
                              last.args.amount)>>


\* The asset id the latest call was invoked with (issue: the id it allocated).
CallId == IF Called("issue") THEN last.ret[1] ELSE last.args.id

\* C12. Table ownership: only issue, mint and burn change TotalSupply; only
\* approve and a successful transfer_from change Allowances, and only at the
\* key (id, owner, spender) of the call; only issue changes AssetInfos; and an
\* operation invoked with asset id a changes no Balances, TotalSupply or
\* Allowances entry of another asset id.
C12_Frame ==
    /\ TotalSupply # pre.TotalSupply =>
           (Called("issue") \/ Called("mint") \/ Called("burn"))
    /\ AssetInfos # pre.AssetInfos => Called("issue")
    /\ Allowances # pre.Allowances =>
           /\ Called("approve") \/ (Called("transfer_from") /\ last.res = Ok)
           /\ \A k \in DOMAIN Allowances :
                  k # <<last.args.id, last.args.owner, last.args.spender>>
                      => Allowances[k] = pre.Allowances[k]
    /\ Tables(Store) # Tables(pre) =>
           \A b \in AssetIds \ {CallId} :
               /\ TotalSupply[b] = pre.TotalSupply[b]
               /\ \A o \in Accounts : Balances[<<b, o>>] = pre.Balances[<<b, o>>]
               /\ \A o, s \in Accounts :
                      Allowances[<<b, o, s>>] = pre.Allowances[<<b, o, s>>]

\* A successful transfer of asset 1 between two accounts while asset 0 has
\* supply.
C12_Witness ==
    /\ Called("transfer")
    /\ last.res = Ok
    /\ last.args.id = 1
    /\ last.args.owner # last.args.target
    /\ Balances # pre.Balances
    /\ TotalSupply[0] > 0
    /\ TotalSupply = pre.TotalSupply


\* The values of T::TokenBalance.
TokenBalance == 0..MAX

\* C13. Range safety: every Balances, TotalSupply and Allowances value lies in
\* 0..MAX, and no stored value comes from wrapping around: what an operation
\* adds to never ends below where it started, and what it subtracts from
\* never ends above.
C13_RangeSafety ==
    /\ \A a \in AssetIds : TotalSupply[a] \in TokenBalance
    /\ \A k \in DOMAIN Balances : Balances[k] \in TokenBalance
    /\ \A k \in DOMAIN Allowances : Allowances[k] \in TokenBalance
    /\ (Called("mint") /\ last.res = Ok) =>
           /\ Balances[<<last.args.id, last.args.owner>>]
                  >= pre.Balances[<<last.args.id, last.args.owner>>]
           /\ TotalSupply[last.args.id] >= pre.TotalSupply[last.args.id]
    /\ (Called("burn") /\ last.res = Ok) =>
           /\ Balances[<<last.args.id, last.args.owner>>]
                  <= pre.Balances[<<last.args.id, last.args.owner>>]
           /\ TotalSupply[last.args.id] <= pre.TotalSupply[last.args.id]
    /\ ((Called("transfer") \/ Called("transfer_from")) /\ last.res = Ok) =>
           /\ Balances[<<last.args.id, last.args.owner>>]
                  <= pre.Balances[<<last.args.id, last.args.owner>>]
           /\ Balances[<<last.args.id, last.args.target>>]
                  >= pre.Balances[<<last.args.id, last.args.target>>]
    /\ (Called("transfer_from") /\ last.res = Ok) =>
           Allowances[<<last.args.id, last.args.owner, last.args.spender>>]
               <= pre.Allowances[<<last.args.id, last.args.owner, last.args.spender>>]

\* A mint whose sum passes MAX: the balance is stored clamped at MAX.
C13_Witness ==
    /\ Called("mint")
    /\ last.res = Ok
    /\ pre.Balances[<<last.args.id, last.args.owner>>] + last.args.amount > MAX
    /\ Balances[<<last.args.id, last.args.owner>>] = MAX


\* The operation op as one transition, on store s with arguments c.
Atomic(op, s, c) ==
    CASE op = "issue" -> inner_issue(s, c.owner, c.amount, c.info, c.overflow_checks)
      [] op = "approve" -> inner_approve(s, c.id, c.owner, c.spender, c.amount)
      [] op = "transfer" -> inner_transfer(s, c.id, c.owner, c.target, c.amount)
      [] op = "transfer_from" ->
             inner_transfer_from(s, c.id, c.owner, c.spender, c.target, c.amount)
      [] op = "mint" -> inner_mint(s, c.id, c.owner, c.amount)
      [] op = "burn" -> inner_burn(s, c.id, c.owner, c.amount)

\* Nothing of the call is in the storage or among the events.
Untouched == Tables(Store) = Tables(pre) /\ Events = <<>>

\* The statement is one of inner_transfer's.
OfTransfer(lab) == \E i \in 1..Len(transfer_steps) : transfer_steps[i].lab = lab

\* C14. Checks precede writes: running each operation statement by statement,
\* whenever a call is about to run a check nothing has been written or
\* deposited yet, so a call that returns an error leaves the storage of its
\* start; in transfer_from the allowance check has passed before any statement
\* of the transfer runs, the transfer is complete before the allowance is
\* written, and the allowance write is the last statement; and the call run
\* statement by statement ends as the operation taken as one transition does.
C14_ChecksPrecedeWrites ==
    /\ (frame # NoFrame /\ Current.kind = "check") => Untouched
    /\ (last # NoCall /\ last.res # Ok) => Untouched
    /\ (frame # NoFrame /\ frame.op = "transfer_from") =>
           LET c == frame.args
           IN  /\ Allowances = pre.Allowances
               /\ OfTransfer(Current.lab) =>
                      pre.Allowances[<<c.id, c.owner, c.spender>>] >= c.amount
               /\ Current.lab = "transfer_from_mutate_allowance" =>
                      Store = inner_transfer(pre, c.id, c.owner, c.target, c.amount).st
    /\ last # NoCall =>
           LET a == Atomic(last.op, pre, last.args)
           IN  /\ last.res = a.res
               /\ last.ret = a.ret
               /\ Store = a.st

\* A transfer_from that passed its allowance check and the amount check, and
\* returned at the balance check.
C14_Witness ==
    /\ frame = NoFrame
    /\ Called("transfer_from")
    /\ last.res = BalanceLow
    /\ pre.Allowances[<<last.args.id, last.args.owner, last.args.spender>>]
           >= last.args.amount
    /\ Untouched


\* C15. Error precedence of transfer_from(id, owner, spender, target, amount):
\* an allowance below the amount gives AllowanceLow whatever the owner's
\* balance; otherwise a zero amount gives AmountZero, also when the allowance
\* is 0; otherwise a balance below the amount gives BalanceLow; otherwise the
\* call succeeds.
C15_TransferFromPrecedence ==
    Called("transfer_from") =>
        LET c == last.args
            allowance == pre.Allowances[<<c.id, c.owner, c.spender>>]
            balance == pre.Balances[<<c.id, c.owner>>]
        IN  last.res = IF allowance < c.amount THEN AllowanceLow
                       ELSE IF c.amount = 0 THEN AmountZero
                       ELSE IF balance < c.amount THEN BalanceLow
                       ELSE Ok

\* A transfer_from of amount 0 under an allowance of 0 has returned AmountZero.
C15_Witness ==
    /\ Called("transfer_from")
    /\ last.args.amount = 0
    /\ pre.Allowances[<<last.args.id, last.args.owner, last.args.spender>>] = 0
    /\ last.res = AmountZero


\* C16. Self-transfer: in every reachable state, transfer(id, A, A, amount)
\* with 0 < amount <= Balances[(id, A)] succeeds and leaves every balance
\* (that of A included, also when it is MAX) and every supply as they were;
\* a successful transfer_from whose owner is its target does the same and
\* takes the amount off the allowance.
C16_SelfTransfer ==
    /\ \A id \in AssetIds, A \in Accounts :
           \A amount \in 1..Balances[<<id, A>>] :
               LET t == inner_transfer(Begin, id, A, A, amount)
               IN  /\ t.res = Ok
                   /\ Tables(t.st) = Tables(Store)
    /\ (Called("transfer") /\ last.args.owner = last.args.target
            /\ 0 < last.args.amount
            /\ last.args.amount <= pre.Balances[<<last.args.id, last.args.owner>>]) =>
           /\ last.res = Ok
           /\ Tables(Store) = Tables(pre)
    /\ (Called("transfer_from") /\ last.res = Ok
            /\ last.args.owner = last.args.target) =>
           LET c == last.args
           IN  /\ Balances = pre.Balances
               /\ TotalSupply = pre.TotalSupply
               /\ AssetInfos = pre.AssetInfos
               /\ NextAssetId = pre.NextAssetId
               /\ Allowances = [pre.Allowances EXCEPT
                                   ![<<c.id, c.owner, c.spender>>] = @ - c.amount]

\* An account holding MAX has transferred to itself, and still holds MAX.
C16_Witness ==
    /\ Called("transfer")
    /\ last.res = Ok
    /\ last.args.owner = last.args.target
    /\ last.args.amount > 0
    /\ pre.Balances[<<last.args.id, last.args.owner>>] = MAX
    /\ Balances[<<last.args.id, last.args.owner>>] = MAX


\* C17. Asset record lifecycle: AssetInfos[id] is present exactly for the ids
\* issue has returned, which are the ids below NextAssetId; an AssetInfos entry
\* that is set is left as it is by every operation; and an id not issued yet
\* has supply 0 and balance 0 for every account.
C17_AssetRecordLifecycle ==
    /\ \A id \in AssetIds :
           /\ is_some(AssetInfos[id]) <=> id < NextAssetId
           /\ is_some(AssetInfos[id]) <=> ~NeverIssued(id)
    /\ \A id \in AssetIds :
           is_some(pre.AssetInfos[id]) => AssetInfos[id] = pre.AssetInfos[id]
    /\ \A id \in AssetIds :
           NeverIssued(id) =>
               /\ TotalSupply[id] = 0
               /\ \A acct \in Accounts : Balances[<<id, acct>>] = 0

\* The errors the taxonomy allows each operation.
ErrorsOf(op) ==
    CASE op = "issue" -> {}
      [] op = "approve" -> {}
      [] op = "transfer" -> {AmountZero, BalanceLow}
      [] op = "transfer_from" -> {AllowanceLow, AmountZero, BalanceLow}
      [] op = "mint" -> {AssetNotExists}
      [] op = "burn" -> {AssetNotExists, BalanceLow}

\* C18. Error taxonomy per operation: issue and approve return no error;
\* transfer only AmountZero or BalanceLow; transfer_from only AllowanceLow,
\* AmountZero or BalanceLow; mint only AssetNotExists; burn only AssetNotExists
\* or BalanceLow, and AssetNotExists whenever the asset is absent, whatever the
\* balance; no operation returns BalanceZero. (An issue that panics at the
\* overflow of the id counter returns nothing, so no error either.)
C18_ErrorTaxonomy ==
    /\ (last.op \in Operations /\ last.res # Panic) =>
           last.res \in {Ok} \cup ErrorsOf(last.op)
    /\ Called("burn") =>
           (last.res = AssetNotExists <=> ~is_some(pre.AssetInfos[last.args.id]))
    /\ last.res # BalanceZero

\* A burn of more than the account holds, on an id without AssetInfo, has
\* returned AssetNotExists.
C18_Witness ==
    /\ Called("burn")
    /\ ~is_some(pre.AssetInfos[last.args.id])
    /\ last.args.amount > pre.Balances[<<last.args.id, last.args.owner>>]
    /\ last.res = AssetNotExists


\* What transfer_from has moved under the latest approve of a key is within
\* the approved amount, and the allowance is what is left of it.
SpentWithinApproved ==
    \A k \in DOMAIN grants :
        /\ grants[k].spent <= grants[k].approved
        /\ Allowances[k] = grants[k].approved - grants[k].spent

\* C19. No allowance double-spend: for every (asset, owner, spender), the
\* amounts of the successful transfer_from calls made since the latest approve
\* on the key add up to no more than the amount of that approve, and the
\* allowance is what is left of it; and a balance of an account O goes down
\* only in a transfer signed by O, in a burn, or in a transfer_from of an
\* amount within the allowance O approved.
C19_NoDoubleSpend ==
    /\ SpentWithinApproved
    /\ \A a \in AssetIds, O \in Accounts :
           Balances[<<a, O>>] < pre.Balances[<<a, O>>] =>
               /\ last.res = Ok
               /\ last.op \in {"transfer", "burn", "transfer_from"}
               /\ last.args.id = a
               /\ last.args.owner = O
               /\ Called("transfer_from") =>
                      /\ last.args.amount
                             <= pre.Allowances[<<a, O, last.args.spender>>]
                      /\ pre.Allowances[<<a, O, last.args.spender>>]
                             <= grants[<<a, O, last.args.spender>>].approved

\* C20. Allowances outlive issuance: approve succeeds and records the
\* allowance on an id that has no AssetInfo yet; issue leaves every allowance
\* as it was, those under the id it allocates included; so right after an
\* issue every spender can transfer_from the issuer any amount from 1 up to
\* min(allowance, initial supply) of the new asset, to any target.
C20_AllowancesOutliveIssuance ==
    /\ (Called("approve") /\ ~is_some(pre.AssetInfos[last.args.id])) =>
           /\ last.res = Ok
           /\ Allowances[<<last.args.id, last.args.owner, last.args.spender>>]
                  = last.args.amount
    /\ (Called("issue") /\ last.res = Ok) =>
           LET id == last.ret[1]
               issuer == last.args.owner
           IN  /\ Allowances = pre.Allowances
               /\ \A spender \in Accounts, target \in Accounts :
                      \A amount \in 1..Min(Allowances[<<id, issuer, spender>>],
                                           last.args.amount) :
                          LET t == inner_transfer_from(Begin, id, issuer, spender,
                                                       target, amount)
                          IN  /\ t.res = Ok
                              /\ t.st.Allowances[<<id, issuer, spender>>]
                                     = Allowances[<<id, issuer, spender>>] - amount
                              /\ t.st.Balances[<<id, issuer>>]
                                     = IF target = issuer THEN last.args.amount
                                       ELSE last.args.amount - amount

\* An asset has been issued under an id on which its issuer had approved a
\* spender before, and the spender can move 1 of it at once.
C20_Witness ==
    /\ Called("issue")
    /\ last.res = Ok
    /\ last.args.amount > 0
    /\ \E spender \in Accounts, target \in Accounts :
           /\ pre.Allowances[<<last.ret[1], last.args.owner, spender>>] > 0
           /\ ~is_some(pre.AssetInfos[last.ret[1]])
           /\ inner_transfer_from(Begin, last.ret[1], last.args.owner, spender,
                                  target, 1).res = Ok

====
